---- MODULE Spec2Model ----
(***************************************************************************)
(* CloudAgentDelegate (cloud_agent_example.py): a delegate object with an  *)
(* endpoint and a connected flag, whose process_image_remote dispatches    *)
(* to a sepia transform, cv2.resize or cv2.GaussianBlur, and the demo      *)
(* flow main().                                                            *)
(*                                                                         *)
(* Arrays.  A numpy image is the record                                    *)
(*   [h, w, c, fill, patch, tag, k]                                        *)
(* h x w x c samples of 8 bits; the first Len(patch) pixels in row-major   *)
(* order are patch[1..], every other pixel is fill (main builds its image  *)
(* this way: np.zeros then image[:] = colour).  tag = "pixels" means the   *)
(* samples are the ones described by fill and patch.  The samples that     *)
(* cv2.resize and cv2.GaussianBlur compute are left uninterpreted: tag =   *)
(* "resampled" (resp. "gaussian" with k the kernel size) applied to the    *)
(* source samples kept in fill and patch.                                  *)
(*                                                                         *)
(* Buffers.  heap[1] is the array the caller passes in, heap[2] the array  *)
(* a transform allocates for its result; ret.buf is the buffer the         *)
(* returned reference points to (0: nothing returned).                     *)
(***************************************************************************)
EXTENDS Integers, Sequences, FiniteSets, TLC

VARIABLES delegate, heap, before, last, ret, everConnected, pc, mainLog, mainExc

vars == <<delegate, heap, before, last, ret, everConnected, pc, mainLog, mainExc>>

(* ------------------------------ bounds -------------------------------- *)
MaxSide == 2
MaxPatch == 1
MaxTarget == 2
MaxKernel == 4

(* --------------------------- value domains ---------------------------- *)
Min(a, b) == IF a < b THEN a ELSE b
Max(a, b) == IF a > b THEN a ELSE b

\* Optional[str] for the constructor: <<>> is None, <<s>> is the string s.
Endpoints == {<<>>, <<"">>, <<"http://cloud:9000">>}

\* Pixels the inputs are built from (8-bit triples).
Palette == {<<100, 150, 200>>, <<100, 100, 100>>, <<255, 255, 255>>}

RECURSIVE SeqsUpTo(_, _)
SeqsUpTo(S, n) ==
    IF n = 0 THEN {<<>>}
    ELSE LET shorter == SeqsUpTo(S, n - 1)
         IN  shorter \cup {Append(s, x) : s \in {t \in shorter : Len(t) = n - 1}, x \in S}

NoArray == [h |-> 0, w |-> 0, c |-> 0, fill |-> <<0, 0, 0>>, patch |-> <<>>,
            tag |-> "none", k |-> 0]

MainImage == [h |-> 400, w |-> 600, c |-> 3, fill |-> <<100, 150, 200>>,
              patch |-> <<>>, tag |-> "pixels", k |-> 0]

Shapes == ((1..MaxSide) \X (1..MaxSide)) \cup {<<400, 600>>}

Images ==
    {[h |-> s[1], w |-> s[2], c |-> 3, fill |-> f, patch |-> p,
      tag |-> "pixels", k |-> 0] :
        s \in Shapes, f \in Palette, p \in SeqsUpTo(Palette, MaxPatch)}

\* Operation names a caller may pass: the three recognised ones, spellings
\* that differ only in case, an unknown name and the empty string.
Operations == {"sepia", "resize", "blur", "Sepia", "BLUR", "unknown_op", ""}

\* **kwargs: each key is <<>> when absent, otherwise holds its value
\* (size: <<W, H>>, kernel_size: <<K>>).
Sizes == {<<>>, <<300, 200>>} \cup {<<x, y>> : x \in 0..MaxTarget, y \in 0..MaxTarget}
KernelSizes == {<<>>, <<21>>} \cup {<<n>> : n \in (-1)..MaxKernel}
\* A caller passes one of the two keys, none, or both as main's calls spell
\* them.
Kwargs ==
    {kw \in [size : Sizes, kernel_size : KernelSizes] :
        \/ kw.size = <<>>
        \/ kw.kernel_size = <<>>
        \/ kw.size = <<300, 200>> /\ kw.kernel_size = <<21>>}
NoKwargs == [size |-> <<>>, kernel_size |-> <<>>]

kwargs_get(kwargs, key, default) ==
    IF kwargs[key] = <<>> THEN default ELSE kwargs[key]

(* ----------------------------- the library ---------------------------- *)
\* A library call either yields an array or raises cv2.error.
Yield(a) == [ok |-> TRUE, arr |-> a]
Cv2Error == [ok |-> FALSE, arr |-> NoArray]

\* The sepia matrix, scaled by KernelScale so that the arithmetic is exact.
KernelScale == 1000
kernel == << <<272, 534, 131>>, <<349, 686, 168>>, <<393, 769, 189>> >>

Dot(row, px) == row[1] * px[1] + row[2] * px[2] + row[3] * px[3]

\* saturate_cast<uchar> of num / KernelScale: nearest integer, then
\* saturation to 0..255.  An exact half goes down (tie = 0) or up (tie = 1).
saturate_cast_uchar(num, tie) ==
    LET q == num \div KernelScale
        r == num % KernelScale
        n == IF 2 * r < KernelScale THEN q
             ELSE IF 2 * r > KernelScale THEN q + 1
             ELSE q + tie
    IN  Max(0, Min(255, n))

TransformPixel(px, m, tie) ==
    [i \in 1..3 |-> saturate_cast_uchar(Dot(m[i], px), tie)]

\* cv2.transform(src, m) on an 8-bit source: the destination has the depth
\* of the source, every pixel being m applied to the source pixel and cast
\* with saturate_cast<uchar>.  Which way an exact half is cast depends on
\* the arithmetic of the build (32-bit float or fixed point): both ways are
\* outcomes.
cv2_transform(image, m) ==
    {[image EXCEPT !.fill = TransformPixel(image.fill, m, tie),
                   !.patch = [i \in 1..Len(image.patch) |->
                                 TransformPixel(image.patch[i], m, tie)]] :
        tie \in {0, 1}}

\* np.clip(a, lo, hi)
np_clip(a, lo, hi) ==
    LET clip(px) == [i \in 1..3 |-> Max(lo, Min(hi, px[i]))]
    IN  [a EXCEPT !.fill = clip(a.fill),
                  !.patch = [i \in 1..Len(a.patch) |-> clip(a.patch[i])]]

\* ndarray.astype(np.uint8): integer samples modulo 2^8.
astype_uint8(a) ==
    LET cast(px) == [i \in 1..3 |-> px[i] % 256]
    IN  [a EXCEPT !.fill = cast(a.fill),
                  !.patch = [i \in 1..Len(a.patch) |-> cast(a.patch[i])]]

\* cv2.resize(src, dsize): dsize is (width, height); the result has dsize[2]
\* rows and dsize[1] columns.  A dsize with a side that is not positive
\* (no fx, fy given) raises cv2.error.
cv2_resize(image, dsize) ==
    IF dsize[1] > 0 /\ dsize[2] > 0
    THEN Yield([image EXCEPT !.h = dsize[2], !.w = dsize[1], !.tag = "resampled"])
    ELSE Cv2Error

\* cv2.GaussianBlur(src, ksize, sigmaX): a 1 x 1 kernel copies the source;
\* otherwise both sides of ksize must be positive and odd (with sigmaX = 0
\* no size is derived from sigma), else cv2.error.
cv2_GaussianBlur(image, ksize, sigmaX) ==
    IF ksize[1] = 1 /\ ksize[2] = 1 THEN Yield(image)
    ELSE IF sigmaX = 0 /\ ksize[1] > 0 /\ ksize[1] % 2 = 1
                       /\ ksize[2] > 0 /\ ksize[2] % 2 = 1
    THEN Yield([image EXCEPT !.tag = "gaussian", !.k = ksize[1]])
    ELSE Cv2Error

(* ----------------------------- the delegate --------------------------- *)
DefaultEndpoint == "http://localhost:8000"

\* CloudAgentDelegate.__init__: endpoint or the default (None and "" are
\* falsy).
__init__(endpoint) ==
    [endpoint |-> IF endpoint = <<>> \/ endpoint = <<"">>
                  THEN DefaultEndpoint ELSE endpoint[1],
     connected |-> FALSE]

\* connect with the flag flipped instead of set.
connect_toggle(self) ==
    LET new == [self EXCEPT !.connected = ~self.connected]
    IN  [self |-> new, ret |-> new.connected]

\* CloudAgentDelegate.connect
connect(self) ==
    LET new == [self EXCEPT !.connected = TRUE]
    IN  [self |-> new, ret |-> new.connected]

\* CloudAgentDelegate.disconnect
disconnect(self) == [self |-> [self EXCEPT !.connected = FALSE]]

\* Outcome of a call of process_image_remote: kind "return" with the array
\* arr (alias: the returned reference is the argument itself) or kind
\* "raise" with the exception err; branch is the dispatch branch entered.
Return(br, a, al) ==
    [kind |-> "return", err |-> "", branch |-> br, arr |-> a, alias |-> al]
Raise(br, e) ==
    [kind |-> "raise", err |-> e, branch |-> br, arr |-> NoArray, alias |-> FALSE]
FromLibrary(br, r) ==
    IF r.ok THEN Return(br, r.arr, FALSE) ELSE Raise(br, "cv2.error")

\* CloudAgentDelegate._apply_sepia_local: the arrays it can return.
_apply_sepia_local(image) ==
    {astype_uint8(np_clip(sepia, 0, 255)) : sepia \in cv2_transform(image, kernel)}

\* process_image_remote without the guard of line 56.
process_image_remote_noGuard(self, image, operation, kwargs) ==
    IF FALSE THEN {Raise("none", "RuntimeError")}
    ELSE IF operation = "sepia"
    THEN {Return("sepia", a, FALSE) : a \in _apply_sepia_local(image)}
    ELSE IF operation = "resize"
    THEN LET target_size == kwargs_get(kwargs, "size", <<800, 600>>)
         IN  {FromLibrary("resize", cv2_resize(image, target_size))}
    ELSE IF operation = "blur"
    THEN LET kernel_size == kwargs_get(kwargs, "kernel_size", <<15>>)[1]
         IN  {FromLibrary("blur",
                  cv2_GaussianBlur(image, <<kernel_size, kernel_size>>, 0))}
    ELSE {Return("else", image, TRUE)}

\* process_image_remote matching the sepia name whatever its case.
process_image_remote_anyCase(self, image, operation, kwargs) ==
    IF ~self.connected THEN {Raise("none", "RuntimeError")}
    ELSE IF operation \in {"sepia", "Sepia", "SEPIA"}
    THEN {Return("sepia", a, FALSE) : a \in _apply_sepia_local(image)}
    ELSE IF operation = "resize"
    THEN LET target_size == kwargs_get(kwargs, "size", <<800, 600>>)
         IN  {FromLibrary("resize", cv2_resize(image, target_size))}
    ELSE IF operation = "blur"
    THEN LET kernel_size == kwargs_get(kwargs, "kernel_size", <<15>>)[1]
         IN  {FromLibrary("blur",
                  cv2_GaussianBlur(image, <<kernel_size, kernel_size>>, 0))}
    ELSE {Return("else", image, TRUE)}

\* process_image_remote with the default size spelled (height, width).
process_image_remote_default600x800(self, image, operation, kwargs) ==
    IF ~self.connected THEN {Raise("none", "RuntimeError")}
    ELSE IF operation = "sepia"
    THEN {Return("sepia", a, FALSE) : a \in _apply_sepia_local(image)}
    ELSE IF operation = "resize"
    THEN LET target_size == kwargs_get(kwargs, "size", <<600, 800>>)
         IN  {FromLibrary("resize", cv2_resize(image, target_size))}
    ELSE IF operation = "blur"
    THEN LET kernel_size == kwargs_get(kwargs, "kernel_size", <<15>>)[1]
         IN  {FromLibrary("blur",
                  cv2_GaussianBlur(image, <<kernel_size, kernel_size>>, 0))}
    ELSE {Return("else", image, TRUE)}

\* process_image_remote with an even default kernel size.
process_image_remote_default14(self, image, operation, kwargs) ==
    IF ~self.connected THEN {Raise("none", "RuntimeError")}
    ELSE IF operation = "sepia"
    THEN {Return("sepia", a, FALSE) : a \in _apply_sepia_local(image)}
    ELSE IF operation = "resize"
    THEN LET target_size == kwargs_get(kwargs, "size", <<800, 600>>)
         IN  {FromLibrary("resize", cv2_resize(image, target_size))}
    ELSE IF operation = "blur"
    THEN LET kernel_size == kwargs_get(kwargs, "kernel_size", <<14>>)[1]
         IN  {FromLibrary("blur",
                  cv2_GaussianBlur(image, <<kernel_size, kernel_size>>, 0))}
    ELSE {Return("else", image, TRUE)}

\* CloudAgentDelegate.process_image_remote: the outcomes of a call.
process_image_remote(self, image, operation, kwargs) ==
    IF ~self.connected THEN {Raise("none", "RuntimeError")}
    ELSE IF operation = "sepia"
    THEN {Return("sepia", a, FALSE) : a \in _apply_sepia_local(image)}
    ELSE IF operation = "resize"
    THEN LET target_size == kwargs_get(kwargs, "size", <<800, 600>>)
         IN  {FromLibrary("resize", cv2_resize(image, target_size))}
    ELSE IF operation = "blur"
    THEN LET kernel_size == kwargs_get(kwargs, "kernel_size", <<15>>)[1]
         IN  {FromLibrary("blur",
                  cv2_GaussianBlur(image, <<kernel_size, kernel_size>>, 0))}
    ELSE {Return("else", image, TRUE)}

(* ------------------------------- state -------------------------------- *)
NoRet == [kind |-> "none", bool |-> FALSE, err |-> "", branch |-> "none", buf |-> 0]

Call(op, caller, pre, operation, kwargs) ==
    [op |-> op, caller |-> caller, pre |-> pre, operation |-> operation,
     kwargs |-> kwargs]

\* What a call of process_image_remote with outcome out leaves behind.
RetOf(out) ==
    [kind |-> out.kind, bool |-> FALSE, err |-> out.err, branch |-> out.branch,
     buf |-> IF out.kind = "return" THEN (IF out.alias THEN 1 ELSE 2) ELSE 0]
HeapOf(image, out) ==
    [b \in 1..2 |-> IF b = 1 THEN image
                    ELSE IF out.kind = "return" /\ ~out.alias THEN out.arr
                    ELSE NoArray]

Init ==
    /\ \E e \in Endpoints : delegate = __init__(e)
    /\ heap = [b \in 1..2 |-> NoArray]
    /\ before = NoArray
    /\ last = Call("__init__", "caller", FALSE, "", NoKwargs)
    /\ ret = NoRet
    /\ everConnected = FALSE
    /\ pc = "idle"
    /\ mainLog = <<>>
    /\ mainExc = FALSE

(* ------------------ calls made by an arbitrary caller ----------------- *)
Connect ==
    /\ pc = "idle"
    /\ LET r == connect(delegate)
       IN  /\ delegate' = r.self
           /\ ret' = [NoRet EXCEPT !.kind = "return", !.bool = r.ret]
    /\ last' = Call("connect", "caller", delegate.connected, "", NoKwargs)
    /\ everConnected' = TRUE
    /\ UNCHANGED <<heap, before, pc, mainLog, mainExc>>

Disconnect ==
    /\ pc = "idle"
    /\ delegate' = disconnect(delegate).self
    /\ ret' = NoRet
    /\ last' = Call("disconnect", "caller", delegate.connected, "", NoKwargs)
    /\ UNCHANGED <<heap, before, everConnected, pc, mainLog, mainExc>>

\* A call of process_image_remote that also drops the connection.
Process_dropsConnection ==
    /\ pc = "idle"
    /\ heap[1] = NoArray
    /\ \E image \in Images, operation \in Operations, kwargs \in Kwargs :
          /\ \E out \in process_image_remote(delegate, image, operation, kwargs) :
                /\ ret' = RetOf(out)
                /\ heap' = HeapOf(image, out)
          /\ before' = image
          /\ last' = Call("process_image_remote", "caller", delegate.connected,
                          operation, kwargs)
    /\ delegate' = disconnect(delegate).self
    /\ UNCHANGED <<everConnected, pc, mainLog, mainExc>>

\* The caller builds an image and calls process_image_remote on it; it holds
\* no array of an earlier call at that point (see Release).
Process ==
    /\ pc = "idle"
    /\ heap[1] = NoArray
    /\ \E image \in Images, operation \in Operations, kwargs \in Kwargs :
          /\ \E out \in process_image_remote(delegate, image, operation, kwargs) :
                /\ ret' = RetOf(out)
                /\ heap' = HeapOf(image, out)
          /\ before' = image
          /\ last' = Call("process_image_remote", "caller", delegate.connected,
                          operation, kwargs)
    /\ UNCHANGED <<delegate, everConnected, pc, mainLog, mainExc>>

\* The caller writes into the array it got back (result[:] = colour).
WriteResult(colour) ==
    /\ pc = "idle"
    /\ ret.kind = "return" /\ ret.buf \in 1..2
    /\ last.op \in {"process_image_remote", "write_result"}
    /\ heap' = [heap EXCEPT ![ret.buf] = [@ EXCEPT !.fill = colour, !.patch = <<>>,
                                                    !.tag = "pixels", !.k = 0]]
    /\ last' = [last EXCEPT !.op = "write_result"]
    /\ UNCHANGED <<delegate, before, ret, everConnected, pc, mainLog, mainExc>>

\* The caller drops the arrays of its last call: the argument and the result
\* go out of scope.
Release ==
    /\ pc = "idle"
    /\ heap[1] # NoArray
    /\ heap' = [b \in 1..2 |-> NoArray]
    /\ before' = NoArray
    /\ ret' = NoRet
    /\ last' = Call("release", "caller", delegate.connected, "", NoKwargs)
    /\ UNCHANGED <<delegate, everConnected, pc, mainLog, mainExc>>

(* -------------------------------- main -------------------------------- *)
\* main() builds its image and a delegate of its own (lines 108-112).
MainStart ==
    /\ pc = "idle"
    /\ delegate' = __init__(<<>>)
    /\ heap' = [b \in 1..2 |-> IF b = 1 THEN MainImage ELSE NoArray]
    /\ before' = NoArray
    /\ ret' = NoRet
    /\ last' = Call("__init__", "main", FALSE, "", NoKwargs)
    /\ everConnected' = FALSE
    /\ mainLog' = <<>>
    /\ mainExc' = FALSE
    /\ pc' = "connect"

\* delegate.connect() (line 113); the return value is dropped.
MainConnect ==
    /\ pc = "connect"
    /\ LET r == connect(delegate)
       IN  /\ delegate' = r.self
           /\ ret' = [NoRet EXCEPT !.kind = "return", !.bool = r.ret]
    /\ last' = Call("connect", "main", delegate.connected, "", NoKwargs)
    /\ everConnected' = TRUE
    /\ mainLog' = Append(mainLog, "connect")
    /\ pc' = "sepia"
    /\ UNCHANGED <<heap, before, mainExc>>

\* The three calls of the try block, in program order.
MainSteps == {"sepia", "blur", "resize"}
MainKwargs(step) ==
    IF step = "blur" THEN [NoKwargs EXCEPT !.kernel_size = <<21>>]
    ELSE IF step = "resize" THEN [NoKwargs EXCEPT !.size = <<300, 200>>]
    ELSE NoKwargs
MainAfter(step) ==
    IF step = "sepia" THEN "blur" ELSE IF step = "blur" THEN "resize" ELSE "finally"

\* One call of the try block (lines 118, 122, 126-127): when it returns,
\* main goes on to the next statement; when it raises, to the finally clause.
MainProcess(step) ==
    /\ pc = step
    /\ \E out \in process_image_remote(delegate, heap[1], step, MainKwargs(step)) :
          /\ ret' = RetOf(out)
          /\ heap' = HeapOf(heap[1], out)
          /\ pc' = IF out.kind = "return" THEN MainAfter(step) ELSE "finally"
          /\ mainExc' = (out.kind = "raise")
    /\ before' = heap[1]
    /\ last' = Call("process_image_remote", "main", delegate.connected,
                    step, MainKwargs(step))
    /\ mainLog' = Append(mainLog, step)
    /\ UNCHANGED <<delegate, everConnected>>

\* The same call when the library cannot allocate its result (MemoryError
\* out of the cv2 or numpy call, past the guard of line 56): the exception
\* leaves the try block through the finally clause.
MainProcessFault(step) ==
    /\ pc = step
    /\ delegate.connected
    /\ ret' = RetOf(Raise(step, "MemoryError"))
    /\ heap' = HeapOf(heap[1], Raise(step, "MemoryError"))
    /\ pc' = "finally"
    /\ mainExc' = TRUE
    /\ before' = heap[1]
    /\ last' = Call("process_image_remote", "main", delegate.connected,
                    step, MainKwargs(step))
    /\ mainLog' = Append(mainLog, step)
    /\ UNCHANGED <<delegate, everConnected>>

\* main ending without the disconnect of the finally clause.
MainFinally_noDisconnect ==
    /\ pc = "finally"
    /\ ret' = NoRet
    /\ last' = Call("disconnect", "main", delegate.connected, "", NoKwargs)
    /\ mainLog' = Append(mainLog, "disconnect")
    /\ pc' = "done"
    /\ UNCHANGED <<delegate, heap, before, everConnected, mainExc>>

\* finally: delegate.disconnect() (line 133); main then ends, re-raising
\* the exception when there is one (mainExc).
MainFinally ==
    /\ pc = "finally"
    /\ delegate' = disconnect(delegate).self
    /\ ret' = NoRet
    /\ last' = Call("disconnect", "main", delegate.connected, "", NoKwargs)
    /\ mainLog' = Append(mainLog, "disconnect")
    /\ pc' = "done"
    /\ UNCHANGED <<heap, before, everConnected, mainExc>>

Next ==
    \/ Connect
    \/ Disconnect
    \/ Process
    \/ \E colour \in Palette : WriteResult(colour)
    \/ Release
    \/ MainStart
    \/ MainConnect
    \/ \E step \in MainSteps : MainProcess(step)
    \/ \E step \in MainSteps : MainProcessFault(step)
    \/ MainFinally

Spec == Init /\ [][Next]_vars

TypeOK ==
    /\ delegate.connected \in BOOLEAN
    /\ ret.kind \in {"none", "return", "raise"}
    /\ ret.buf \in 0..2
    /\ pc \in {"idle", "connect", "finally", "done"} \cup MainSteps

(* ------------------------------- claims ------------------------------- *)
IsProcess == last.op = "process_image_remote"
Recognised == {"sepia", "resize", "blur"}
Returned == ret.kind = "return" /\ ret.buf \in 1..2
SameShape(a, b) == a.h = b.h /\ a.w = b.w /\ a.c = b.c

\* C1: a call of process_image_remote made while connected is false raises
\* RuntimeError, returns nothing and enters no dispatch branch: no array is
\* produced.
C1_NotConnectedFails ==
    IsProcess /\ ~last.pre =>
        /\ ret.kind = "raise" /\ ret.err = "RuntimeError"
        /\ ret.branch = "none" /\ ret.buf = 0
        /\ heap[2] = NoArray

\* A call that fails after the delegate had been connected and disconnected.
C1_Witness ==
    /\ IsProcess /\ ~last.pre /\ everConnected
    /\ last.operation = "blur" /\ ret.kind = "raise"

\* C2: a new delegate is disconnected; connect leaves connected = TRUE and
\* returns TRUE from either state, disconnect leaves connected = FALSE and
\* returns nothing from either state; a second connect (disconnect) in a row
\* leaves the delegate as the first one did.
C2_ConnectDisconnectTotal ==
    [][ /\ (last.op = "__init__" => ~delegate.connected)
        /\ (last'.op = "__init__" => ~delegate'.connected)
        /\ (last'.op = "connect" =>
               /\ delegate'.connected
               /\ ret'.kind = "return" /\ ret'.bool)
        /\ (last'.op = "disconnect" => ~delegate'.connected /\ ret' = NoRet)
        /\ (last.op = "connect" /\ last'.op = "connect" => delegate' = delegate)
        /\ (last.op = "disconnect" /\ last'.op = "disconnect" =>
               delegate' = delegate) ]_vars

\* connect called on a delegate that was already connected.
C2_Witness ==
    last.op = "connect" /\ last.pre /\ delegate.connected /\ ret.bool

\* C3: a step that is a call of process_image_remote leaves connected and
\* endpoint as they were, and no step other than a construction changes
\* endpoint.
C3_ProcessFrame ==
    [][ /\ (last'.op = "process_image_remote" => delegate' = delegate)
        /\ (last'.op # "__init__" => delegate'.endpoint = delegate.endpoint) ]_vars

\* A call that returned an array on a delegate that is still connected.
C3_Witness ==
    /\ IsProcess /\ last.pre /\ delegate.connected
    /\ ret.kind = "return" /\ last.operation = "resize"

\* C4: while connected, every call of process_image_remote returns an image,
\* whatever the operation name and the parameters.
C4_OnlyNotConnected ==
    IsProcess /\ last.pre /\ last.caller = "caller" => Returned

\* C5: main calls connect, then sepia, blur and resize in that order up to
\* the first one that raises, then disconnect; none of its process calls is
\* made while connected is false; it ends with connected = FALSE.
C5_MainOrder ==
    /\ (last.caller = "main" /\ IsProcess => last.pre)
    /\ (pc = "done" =>
           /\ ~delegate.connected
           /\ last.op = "disconnect"
           /\ \E n \in 1..3 :
                 /\ mainLog = <<"connect">> \o SubSeq(<<"sepia", "blur", "resize">>, 1, n)
                                 \o <<"disconnect">>
                 /\ (~mainExc => n = 3))

\* main ended through the finally clause after its blur call raised.
C5_Witness ==
    /\ pc = "done" /\ mainExc /\ ~delegate.connected
    /\ mainLog = <<"connect", "sepia", "blur", "disconnect">>

\* C6: while connected, an operation name other than 'sepia', 'resize' and
\* 'blur' makes process_image_remote return an array equal to its input.
C6_UnknownIsIdentity ==
    IsProcess /\ last.pre /\ last.operation \notin Recognised =>
        Returned /\ heap[ret.buf] = before

\* The name 'Sepia' passed with a size parameter.
C6_Witness ==
    /\ IsProcess /\ last.pre /\ last.operation = "Sepia"
    /\ last.kwargs.size # <<>> /\ Returned /\ before.patch # <<>>

\* C7: the array process_image_remote returns is not the caller's buffer and
\* the caller's image keeps its contents, also after the result is written.
C7_NewBuffer ==
    last.op \in {"process_image_remote", "write_result"} /\ ret.kind = "return" =>
        ret.buf # 1 /\ heap[1] = before

\* The sepia matrix applied to a pixel, clamped to [0, 255] and rounded down.
TruncatedPixel(px) ==
    [i \in 1..3 |-> Max(0, Min(255, Dot(kernel[i], px) \div KernelScale))]

\* C8: while connected, sepia maps every pixel to the matrix applied to it,
\* clamped and rounded down; (100,150,200) gives (133,171,192).
C8_SepiaTruncates ==
    IsProcess /\ last.pre /\ last.operation = "sepia" /\ ret.kind = "return" =>
        /\ heap[2].fill = TruncatedPixel(before.fill)
        /\ heap[2].patch = [i \in 1..Len(before.patch) |->
                               TruncatedPixel(before.patch[i])]
        /\ (before.fill = <<100, 150, 200>> => heap[2].fill = <<133, 171, 192>>)

\* C9: while connected, resize with size = (W, H), both positive, returns an
\* array of H rows, W columns and 3 channels; without size, 600 rows and 800
\* columns.
C9_ResizeShape ==
    /\ IsProcess /\ last.pre /\ last.operation = "resize"
    /\ ret.err # "MemoryError"
    /\ (last.kwargs.size = <<>> \/ (last.kwargs.size[1] > 0 /\ last.kwargs.size[2] > 0))
    => LET size == IF last.kwargs.size = <<>> THEN <<800, 600>> ELSE last.kwargs.size
       IN  /\ ret.kind = "return" /\ ret.buf = 2
           /\ heap[2].h = size[2] /\ heap[2].w = size[1] /\ heap[2].c = 3

\* A resize without a size parameter, of an image one pixel high.
C9_Witness ==
    /\ IsProcess /\ last.pre /\ last.operation = "resize"
    /\ last.kwargs.size = <<>> /\ before.h = 1
    /\ ret.kind = "return" /\ heap[2].h = 600 /\ heap[2].w = 800

\* C10: while connected, sepia, and blur with an odd positive kernel_size or
\* none, return an array of the height, width and channel count of the input.
C10_SameShape ==
    /\ IsProcess /\ last.pre /\ ret.err # "MemoryError"
    /\ \/ last.operation = "sepia"
       \/ /\ last.operation = "blur"
          /\ \/ last.kwargs.kernel_size = <<>>
             \/ (last.kwargs.kernel_size[1] > 0 /\ last.kwargs.kernel_size[1] % 2 = 1)
    => ret.kind = "return" /\ ret.buf = 2 /\ SameShape(heap[2], before)

\* A blur without a kernel_size parameter of a 400 x 600 image.
C10_Witness ==
    /\ IsProcess /\ last.pre /\ last.operation = "blur"
    /\ last.kwargs.kernel_size = <<>> /\ before.h = 400
    /\ ret.kind = "return" /\ heap[2].h = 400 /\ heap[2].w = 600 /\ heap[2].k = 15

====
